---- MODULE Spec2Model ----
(***************************************************************************)
(* KnobService.py: generation of the configuration-knob C headers.         *)
(*                                                                         *)
(* Text is handled character by character (CharAt), so that the           *)
(* renaming and name-mangling functions are computed the way the code      *)
(* computes them.  An emitted artifact is the sequence of the declarations *)
(* written to it, in the order of the out.write calls.  The behaviour of   *)
(* an emitted C validator is given by an interpreter of the emitted        *)
(* statements over 32-bit values.                                          *)
(***************************************************************************)
EXTENDS Integers, Sequences, FiniteSets, TLC

VARIABLES
    argv,           \* sys.argv: script, command, schema, header, service header,
                    \*           profile header, override sources...
    disk,           \* what the collaborators read: the schema file, the csv files
    schema,         \* the loaded schema object graph (enums, structs, knobs)
    efi_type,       \* dialect flag: TRUE = firmware (UEFI) style
    pc,             \* position of main
    status,         \* exit status of the process, absent while it runs
    stdout,         \* lines printed
    stderr,         \* lines written to sys.stderr
    header,         \* content written to the public header
    impl,           \* content written to the service (implementation) header
    profile_out,    \* content written to the profile header
    profiles,       \* generate_profiles: the (base_name, override_count) list
    profile_idx,    \* generate_profiles: number of override sources entered
    handles,        \* the open and close events of the output file handles
    check           \* one run of an emitted validator on a test value

vars == <<argv, disk, schema, efi_type, pc, status, stdout, stderr, header, impl,
          profile_out, profiles, profile_idx, handles, check>>

None == "None"

\* an attribute that may be absent is a sequence of at most one element
NoValue == <<>>
Some(value) == <<value>>

\* an artifact that has not been opened
NotWritten == [written |-> FALSE]
NULL == "NULL"

----------------------------------------------------------------------------
(* Bounds of the model *)

\* largest number of values in the enum that is varied
MaxEnumValues == 3
\* the small enum numbers run from -1 to MaxNumber
MaxNumber == 3
\* largest number of knobs in a varied schema
MaxKnobs == 2
\* largest number of override sources on the command line
MaxProfiles == 2

\* longest name given to the renaming and include-guard functions
MaxNameLen == 4

----------------------------------------------------------------------------
(* 32-bit quantities *)

Int32Max == 2147483647
Int32Min == (-Int32Max) - 1

\* A C integer that may exceed the int range: s + hi * 2^32, s an int.
Wide(hi, s) == [hi |-> hi, s |-> s]
WideOfInt(n) == Wide(0, n)
WideLess(a, b) == a.hi < b.hi \/ (a.hi = b.hi /\ a.s < b.s)

----------------------------------------------------------------------------
(* Text *)

UpperMap == [a |-> "A", b |-> "B", c |-> "C", d |-> "D", e |-> "E", f |-> "F",
             g |-> "G", h |-> "H", i |-> "I", j |-> "J", k |-> "K", l |-> "L",
             m |-> "M", n |-> "N", o |-> "O", p |-> "P", q |-> "Q", r |-> "R",
             s |-> "S", t |-> "T", u |-> "U", v |-> "V", w |-> "W", x |-> "X",
             y |-> "Y", z |-> "Z"]

UpperChar(ch) == IF ch \in DOMAIN UpperMap THEN UpperMap[ch] ELSE ch

LowerMap == [A |-> "a", B |-> "b", C |-> "c", D |-> "d", E |-> "e", F |-> "f",
             G |-> "g", H |-> "h", I |-> "i", J |-> "j", K |-> "k", L |-> "l",
             M |-> "m", N |-> "n", O |-> "o", P |-> "p", Q |-> "q", R |-> "r",
             S |-> "s", T |-> "t", U |-> "u", V |-> "v", W |-> "w", X |-> "x",
             Y |-> "y", Z |-> "z"]

LowerChar(ch) == IF ch \in DOMAIN LowerMap THEN LowerMap[ch] ELSE ch

CharAt(str, idx) == SubSeq(str, idx, idx)

\* str.upper()
RECURSIVE upper(_)
upper(str) ==
    IF str = "" THEN ""
    ELSE UpperChar(CharAt(str, 1)) \o upper(SubSeq(str, 2, Len(str)))

\* str.lower()
RECURSIVE lower(_)
lower(str) ==
    IF str = "" THEN ""
    ELSE LowerChar(CharAt(str, 1)) \o lower(SubSeq(str, 2, Len(str)))

\* str.replace(old, new) for a one-character old
RECURSIVE replace(_, _, _)
replace(str, old, new) ==
    IF str = "" THEN ""
    ELSE (IF CharAt(str, 1) = old THEN new ELSE CharAt(str, 1))
         \o replace(SubSeq(str, 2, Len(str)), old, new)

\* index of the first occurrence of ch in str, 0 when absent (re.search)
RECURSIVE search(_, _)
search(ch, str) ==
    IF str = "" THEN 0
    ELSE IF CharAt(str, 1) = ch THEN 1
    ELSE LET rest == search(ch, SubSeq(str, 2, Len(str))) IN
         IF rest = 0 THEN 0 ELSE rest + 1

\* index of the last occurrence of ch in str, 0 when absent (str.rfind)
RECURSIVE rfind(_, _)
rfind(ch, str) ==
    IF str = "" THEN 0
    ELSE IF CharAt(str, Len(str)) = ch THEN Len(str)
    ELSE rfind(ch, SubSeq(str, 1, Len(str) - 1))

----------------------------------------------------------------------------
(* Dialect policy *)

uefi_types == [int8_t |-> "INT8", int16_t |-> "INT16", int32_t |-> "INT32",
               int64_t |-> "INT64", uint8_t |-> "UINT8", uint16_t |-> "UINT16",
               uint32_t |-> "UINT32", uint64_t |-> "UINT64", bool |-> "BOOLEAN",
               float |-> "float", double |-> "double", size_t |-> "UINTN",
               int |-> "INTN", const |-> "CONST", config_guid_t |-> "EFI_GUID",
               void |-> "VOID"]

get_type_string(type_name, uefi) ==
    IF uefi /\ type_name = "void*" THEN "VOID *"
    ELSE IF uefi /\ type_name = "char*" THEN "CHAR8 *"
    ELSE IF uefi /\ type_name \in DOMAIN uefi_types THEN uefi_types[type_name]
    ELSE type_name

get_value_string(value, uefi) ==
    IF value = "true" /\ uefi THEN "TRUE"
    ELSE IF value = "false" /\ uefi THEN "FALSE"
    ELSE value

\* number of columns of indentation
get_spacing_string(uefi, num) == IF uefi THEN 2 * num ELSE 4 * num

get_line_ending(uefi) == IF uefi THEN "\r\n" ELSE "\n"

get_assert_style(uefi, lhs, rhs, msg) ==
    IF uefi THEN [macro |-> "STATIC_ASSERT", lhs |-> lhs, rhs |-> rhs, msg |-> msg]
    ELSE [macro |-> "C_ASSERT", lhs |-> lhs, rhs |-> rhs, msg |-> None]

IndexError == "<IndexError>"

\* the while loop of naming_convention_filter: drop each underscore and
\* capitalise the character after it; value[match.end()] past the end raises
RECURSIVE remove_underscores(_)
remove_underscores(value) ==
    LET at == search("_", value) IN
    IF at = 0 THEN value
    ELSE IF at = Len(value) THEN IndexError
    ELSE remove_underscores(SubSeq(value, 1, at - 1) \o UpperChar(CharAt(value, at + 1))
                            \o SubSeq(value, at + 2, Len(value)))

naming_convention_filter(value, type, uefi) ==
    IF ~uefi THEN value
    ELSE IF type
    THEN upper(IF Len(value) >= 2 /\ SubSeq(value, Len(value) - 1, Len(value)) = "_t"
               THEN SubSeq(value, 1, Len(value) - 2) ELSE value)
    ELSE IF value = "" THEN IndexError
    ELSE LET v1 == IF CharAt(value, 1) = "_" THEN SubSeq(value, 2, Len(value)) ELSE value IN
         IF v1 = "" THEN IndexError
         ELSE LET v2 == UpperChar(CharAt(v1, 1)) \o SubSeq(v1, 2, Len(v1))
                  v3 == IF CharAt(v2, Len(v2)) = "_" THEN SubSeq(v2, 1, Len(v2) - 1) ELSE v2
              IN remove_underscores(v3)

----------------------------------------------------------------------------
(* The schema object graph handed over by VariableList *)

EnumValue(name, number) == [name |-> name, number |-> number]
Enum(name, values) == [name |-> name, values |-> values]

IntFormat(c_type, min, max, size) ==
    [kind |-> "int", c_type |-> c_type, name |-> c_type, min |-> min, max |-> max,
     size |-> size]
EnumFormat(enum) ==
    [kind |-> "enum", c_type |-> enum.name, name |-> enum.name, min |-> Int32Min,
     max |-> Int32Max, size |-> 4]
StructFormat(name, size) ==
    [kind |-> "struct", c_type |-> name, name |-> name, min |-> None, max |-> None,
     size |-> size]

StructMember(name, format, count) == [name |-> name, format |-> format, count |-> count]
Struct(name, members) == [name |-> name, members |-> members]

SubKnob(name, leaf, format, min, max) ==
    [name |-> name, leaf |-> leaf, format |-> format, min |-> min, max |-> max]
Knob(name, format, default, subknobs) ==
    [name |-> name, format |-> format, default |-> default, value |-> NoValue,
     subknobs |-> subknobs, namespace |-> "FE3ED49F-B173-41ED-9076-356661D46A42"]

\* sum of the members' format sizes times their repeat counts
RECURSIVE size_in_bytes(_)
size_in_bytes(members) ==
    IF members = <<>> THEN 0
    ELSE Head(members).format.size * Head(members).count + size_in_bytes(Tail(members))

\* decimal rendering of an integer
RECURSIVE digits(_)
digits(n) ==
    (IF n >= 10 THEN digits(n \div 10) ELSE "") \o CharAt("0123456789", (n % 10) + 1)

\* ValueFormat.object_to_string: the C literal of a value
object_to_string(format, object) ==
    IF format.kind = "int"
    THEN (IF object < 0 THEN "-" \o digits(-object) ELSE digits(object))
    ELSE object

\* value of a decimal C literal
RECURSIVE literal_value(_)
literal_value(str) ==
    IF CharAt(str, 1) = "-" THEN -literal_value(SubSeq(str, 2, Len(str)))
    ELSE IF Len(str) = 1 THEN search(str, "0123456789") - 1
    ELSE literal_value(SubSeq(str, 1, Len(str) - 1)) * 10
         + (search(CharAt(str, Len(str)), "0123456789") - 1)

\* concatenation of a sequence of sequences, in order
RECURSIVE Flatten(_)
Flatten(seqs) == IF seqs = <<>> THEN <<>> ELSE Head(seqs) \o Flatten(Tail(seqs))

----------------------------------------------------------------------------
(* Dialect policy: include guard *)

\* mutant: the closing line keeps the dots of the name
get_include_once_style_dotted(name, uefi, is_header) ==
    IF uefi
    THEN IF is_header
         THEN "#ifndef " \o upper(replace(name, ".", "_")) \o get_line_ending(uefi)
              \o "#define " \o upper(replace(name, ".", "_")) \o get_line_ending(uefi)
         ELSE "#endif // " \o upper(name) \o get_line_ending(uefi)
    ELSE IF is_header THEN "#pragma once" \o get_line_ending(uefi)
    ELSE get_line_ending(uefi)

\* header=TRUE: the opening lines, header=FALSE: the closing line
get_include_once_style(name, uefi, is_header) ==
    IF uefi
    THEN LET macro == upper(replace(name, ".", "_")) IN
         IF is_header
         THEN "#ifndef " \o macro \o get_line_ending(uefi)
              \o "#define " \o macro \o get_line_ending(uefi)
         ELSE "#endif // " \o macro \o get_line_ending(uefi)
    ELSE IF is_header THEN "#pragma once" \o get_line_ending(uefi)
    ELSE get_line_ending(uefi)

----------------------------------------------------------------------------
(* generate_public_header *)

\* one declaration written to an artifact
Decl(kind, subject, ident, body) ==
    [kind |-> kind, subject |-> subject, ident |-> ident, body |-> body]

has_negative(enum) == \E idx \in 1..Len(enum.values) : enum.values[idx].number < 0

\* 0x7fffffff or 0xffffffff
padding_value(enum) == IF has_negative(enum) THEN Wide(0, Int32Max) ELSE Wide(1, -1)

enum_declaration(enum, efi) ==
    Decl("enum", enum.name, enum.name,
         [members |-> [idx \in 1..Len(enum.values) |->
                          [ident |-> enum.name \o "_" \o enum.values[idx].name,
                           number |-> enum.values[idx].number]],
          padding |-> [ident |-> "_" \o enum.name \o "_PADDING",
                       value |-> padding_value(enum)],
          assert |-> get_assert_style(efi, "sizeof(" \o enum.name \o ")",
                         "sizeof(" \o get_type_string("uint32_t", efi) \o ")",
                         "enum must be unsigned 32 bit int")])

struct_declaration(struct, efi) ==
    Decl("struct", struct.name, struct.name,
         [members |-> [idx \in 1..Len(struct.members) |->
                          [type |-> get_type_string(struct.members[idx].format.c_type, efi),
                           name |-> struct.members[idx].name,
                           count |-> struct.members[idx].count]],
          assert |-> get_assert_style(efi, "sizeof(" \o struct.name \o ")",
                         digits(size_in_bytes(struct.members)),
                         "structure size must be consistent")])

define_name(subknob) ==
    replace(replace(replace(subknob.name, "[", "_"), "]", "_"), ".", "__")

\* mutant: the public header defines the MIN constants only
subknob_defines_min_only(subknob) ==
    IF ~subknob.leaf THEN <<>>
    ELSE IF subknob.min # subknob.format.min
    THEN <<Decl("define_min", subknob.name,
                "KNOB__" \o define_name(subknob) \o "__MIN",
                object_to_string(subknob.format, subknob.min))>>
    ELSE <<>>

\* the #define lines of one sub-knob
subknob_defines(subknob) ==
    IF ~subknob.leaf THEN <<>>
    ELSE (IF subknob.min # subknob.format.min
          THEN <<Decl("define_min", subknob.name,
                      "KNOB__" \o define_name(subknob) \o "__MIN",
                      object_to_string(subknob.format, subknob.min))>>
          ELSE <<>>)
         \o
         (IF subknob.max # subknob.format.max
          THEN <<Decl("define_max", subknob.name,
                      "KNOB__" \o define_name(subknob) \o "__MAX",
                      object_to_string(subknob.format, subknob.max))>>
          ELSE <<>>)

\* mutant: the firmware dialect declares the accessor before the bound constants
knob_declarations_reordered(knob, efi) ==
    IF efi
    THEN <<Decl("getter", knob.name,
                naming_convention_filter("config_get_", FALSE, efi) \o knob.name,
                [type |-> get_type_string(knob.format.c_type, efi)])>>
         \o Flatten([idx \in 1..Len(knob.subknobs) |-> subknob_defines(knob.subknobs[idx])])
    ELSE Flatten([idx \in 1..Len(knob.subknobs) |-> subknob_defines(knob.subknobs[idx])])
         \o <<Decl("getter", knob.name, "config_get_" \o knob.name,
                   [type |-> get_type_string(knob.format.c_type, efi)]),
              Decl("setter", knob.name, "config_set_" \o knob.name,
                   [type |-> get_type_string("bool", efi),
                    arg |-> get_type_string(knob.format.c_type, efi)])>>

\* the declarations of one knob: bound constants, get accessor, set accessor
knob_declarations(knob, efi) ==
    Flatten([idx \in 1..Len(knob.subknobs) |-> subknob_defines(knob.subknobs[idx])])
    \o <<Decl("getter", knob.name,
              naming_convention_filter("config_get_", FALSE, efi) \o knob.name,
              [type |-> get_type_string(knob.format.c_type, efi)])>>
    \o (IF ~efi
        THEN <<Decl("setter", knob.name, "config_set_" \o knob.name,
                    [type |-> get_type_string("bool", efi),
                     arg |-> get_type_string(knob.format.c_type, efi)])>>
        ELSE <<>>)

\* typedef enum { KNOB_<name>, ..., KNOB_MAX } knob_t;
knob_enum_declaration(knobs, efi) ==
    Decl("knob_enum", "knob_t", naming_convention_filter("knob_t", TRUE, efi),
         [idx \in 1..(Len(knobs) + 1) |->
             IF idx <= Len(knobs) THEN "KNOB_" \o knobs[idx].name ELSE "KNOB_MAX"])

Field(type, name) == [type |-> type, name |-> name]

\* the fixed descriptor and override-table types
shared_type_declarations(efi) ==
    (IF ~efi
     THEN <<Decl("typedef", "config_guid_t", "config_guid_t",
                 <<Field("unsigned long", "Data1"), Field("unsigned short", "Data2"),
                   Field("unsigned short", "Data3"), Field("unsigned char", "Data4[8]")>>)>>
     ELSE <<>>)
    \o
    <<Decl("typedef", "knob_statistics_t",
           naming_convention_filter("knob_statistics_t", TRUE, efi),
           <<Field(get_type_string("int", efi),
                   naming_convention_filter("get_count", FALSE, efi)),
             Field(get_type_string("int", efi),
                   naming_convention_filter("set_count", FALSE, efi))>>),
      Decl("typedef", "knob_validation_fn",
           naming_convention_filter("knob_validation_fn", TRUE, efi),
           <<Field(get_type_string("bool", efi), "return"),
             Field(get_type_string("const", efi) \o " " \o get_type_string("void*", efi),
                   "")>>),
      Decl("typedef", "knob_data_t", naming_convention_filter("knob_data_t", TRUE, efi),
           <<Field(naming_convention_filter("knob_t", TRUE, efi),
                   naming_convention_filter("knob", FALSE, efi)),
             Field(get_type_string("const", efi) \o " " \o get_type_string("void*", efi),
                   naming_convention_filter("default_value_address", FALSE, efi)),
             Field(get_type_string("void*", efi),
                   naming_convention_filter("cache_value_address", FALSE, efi)),
             Field(get_type_string("size_t", efi),
                   naming_convention_filter("value_size", FALSE, efi)),
             Field(get_type_string("const", efi) \o " " \o get_type_string("char*", efi),
                   naming_convention_filter("name", FALSE, efi)),
             Field(get_type_string("size_t", efi),
                   naming_convention_filter("name_size", FALSE, efi)),
             Field(get_type_string("config_guid_t", efi),
                   naming_convention_filter("vendor_namespace", FALSE, efi)),
             Field(get_type_string("int", efi),
                   naming_convention_filter("attributes", FALSE, efi)),
             Field(naming_convention_filter("knob_statistics_t", TRUE, efi),
                   naming_convention_filter("statistics", FALSE, efi)),
             Field(naming_convention_filter("knob_validation_fn*", TRUE, efi),
                   naming_convention_filter("validator", FALSE, efi))>>),
      Decl("typedef", "knob_override_t",
           naming_convention_filter("knob_override_t", TRUE, efi),
           <<Field(naming_convention_filter("knob_t", TRUE, efi),
                   naming_convention_filter("knob", FALSE, efi)),
             Field(get_type_string("void*", efi),
                   naming_convention_filter("value", FALSE, efi))>>),
      Decl("typedef", "profile_t", naming_convention_filter("profile_t", TRUE, efi),
           <<Field(naming_convention_filter("knob_override_t", TRUE, efi) \o "*",
                   naming_convention_filter("overrides", FALSE, efi)),
             Field(get_type_string("size_t", efi),
                   naming_convention_filter("override_count", FALSE, efi))>>)>>

\* the text written to header_path, as its guard lines and its declarations
public_header(schm, header_path, efi) ==
    [written |-> TRUE,
     open |-> get_include_once_style(header_path, efi, TRUE),
     includes |-> IF efi THEN <<"Uefi.h">> ELSE <<"stdint.h", "stddef.h", "stdbool.h">>,
     c_assert_defined |-> ~efi,
     decls |-> [idx \in 1..Len(schm.enums) |-> enum_declaration(schm.enums[idx], efi)]
               \o [idx \in 1..Len(schm.structs) |-> struct_declaration(schm.structs[idx], efi)]
               \o Flatten([idx \in 1..Len(schm.knobs) |->
                              knob_declarations(schm.knobs[idx], efi)])
               \o <<knob_enum_declaration(schm.knobs, efi)>>
               \o shared_type_declarations(efi),
     close |-> get_include_once_style(header_path, efi, FALSE)]

----------------------------------------------------------------------------
(* generate_cached_implementation *)

\* the loop over enum.values that starts from enum.values[0]
RECURSIVE lowest_from(_, _, _)
lowest_from(values, idx, lowest) ==
    IF idx > Len(values) THEN lowest
    ELSE lowest_from(values, idx + 1,
                     IF values[idx].number < lowest THEN values[idx].number ELSE lowest)

RECURSIVE highest_from(_, _, _)
highest_from(values, idx, highest) ==
    IF idx > Len(values) THEN highest
    ELSE highest_from(values, idx + 1,
                      IF values[idx].number > highest THEN values[idx].number ELSE highest)

lowest_value(enum) == lowest_from(enum.values, 1, enum.values[1].number)

\* mutant: the highest value is taken to be the first declared one
highest_value_first(enum) == enum.values[1].number

highest_value(enum) == highest_from(enum.values, 1, enum.values[1].number)

\* highest_value - lowest_value > len(enum.values), on Python's unbounded
\* integers: a difference beyond the int range exceeds every length
span_exceeds_count(lowest, highest, count) ==
    IF lowest < 0 /\ highest > Int32Max + lowest THEN TRUE
    ELSE highest - lowest > count

\* mutant: the switch loses the case of the last declared value
switch_cases_without_last(enum) ==
    [idx \in 1..(Len(enum.values) - 1) |-> enum.name \o "_" \o enum.values[idx].name]

\* case labels of the switch, one per declared value
switch_cases(enum) ==
    [idx \in 1..Len(enum.values) |-> enum.name \o "_" \o enum.values[idx].name]

\* mutant: no gap of the range is detected
range_gaps_undetected(enum, lowest, highest) == <<>>

\* the integers of range(lowest, highest) that no declared value has
range_gaps(enum, lowest, highest) ==
    SelectSeq([idx \in 1..(highest - lowest) |-> lowest + (idx - 1)],
              LAMBDA num : ~\E idx \in 1..Len(enum.values) : enum.values[idx].number = num)

enum_validator(enum, efi) ==
    LET lowest == lowest_value(enum)
        highest == highest_value(enum)
        ident == naming_convention_filter("validate_enum_value_", FALSE, efi) \o enum.name
    IN  IF span_exceeds_count(lowest, highest, Len(enum.values))
        THEN [ident |-> ident, enum |-> enum.name, strategy |-> "switch",
              cases |-> switch_cases(enum), int_type |-> None,
              lowest |-> None, highest |-> None, gaps |-> <<>>,
              true |-> get_value_string("true", efi),
              false |-> get_value_string("false", efi)]
        ELSE [ident |-> ident, enum |-> enum.name, strategy |-> "range",
              cases |-> <<>>, int_type |-> get_type_string("int", efi),
              lowest |-> lowest, highest |-> highest,
              gaps |-> range_gaps(enum, lowest, highest),
              true |-> get_value_string("true", efi),
              false |-> get_value_string("false", efi)]

\* mutant: an enum-typed leaf does not count as a constraint
constraint_present_bounds_only(knob) ==
    \E idx \in 1..Len(knob.subknobs) :
        LET subknob == knob.subknobs[idx] IN
        /\ subknob.leaf
        /\ subknob.format.kind # "enum"
        /\ (subknob.min # subknob.format.min \/ subknob.max # subknob.format.max)

constraint_present(knob) ==
    \E idx \in 1..Len(knob.subknobs) :
        LET subknob == knob.subknobs[idx] IN
        /\ subknob.leaf
        /\ \/ subknob.format.kind = "enum"
           \/ /\ subknob.format.kind # "enum"
              /\ (subknob.min # subknob.format.min \/ subknob.max # subknob.format.max)

\* path of a sub-knob inside the knob's value: subknob.name[len(knob.name):]
subknob_path(knob, subknob) == SubSeq(subknob.name, Len(knob.name) + 1, Len(subknob.name))

ContentCheck(kind, subknob, path, ref) ==
    [kind |-> kind, subknob |-> subknob, path |-> path, ref |-> ref]

\* the if-statements emitted for one sub-knob
subknob_checks(knob, subknob, efi) ==
    IF ~subknob.leaf THEN <<>>
    ELSE IF subknob.format.kind = "enum"
    THEN <<ContentCheck("enum", subknob.name, subknob_path(knob, subknob),
               naming_convention_filter("validate_enum_value_", FALSE, efi)
               \o subknob.format.name)>>
    ELSE (IF subknob.min # subknob.format.min
          THEN <<ContentCheck("min", subknob.name, subknob_path(knob, subknob),
                     "KNOB__" \o define_name(subknob) \o "__MIN")>>
          ELSE <<>>)
         \o
         (IF subknob.max # subknob.format.max
          THEN <<ContentCheck("max", subknob.name, subknob_path(knob, subknob),
                     "KNOB__" \o define_name(subknob) \o "__MAX")>>
          ELSE <<>>)

knob_validator(knob, efi) ==
    LET ident == naming_convention_filter("validate_knob_content_", FALSE, efi) \o knob.name IN
    IF constraint_present(knob)
    THEN [ident |-> ident, kind |-> "function", knob |-> knob.name,
          type |-> get_type_string(knob.format.c_type, efi),
          checks |-> Flatten([idx \in 1..Len(knob.subknobs) |->
                                 subknob_checks(knob, knob.subknobs[idx], efi)]),
          target |-> None]
    ELSE [ident |-> ident, kind |-> "alias", knob |-> knob.name, type |-> None,
          checks |-> <<>>,
          target |-> naming_convention_filter("validate_knob_no_constraints", FALSE, efi)]

\* one entry of the knob descriptor table
knob_data_entry(knob, efi) ==
    [knob |-> "KNOB_" \o knob.name,
     default_value_address |->
         "&g" \o naming_convention_filter("_knob_default_values", FALSE, efi)
         \o "." \o knob.name,
     cache_value_address |-> "CONFIG_CACHE_ADDRESS(" \o knob.name \o ")",
     value_size |-> "sizeof(" \o get_type_string(knob.format.c_type, efi) \o ")",
     name |-> knob.name,
     name_size |-> Len(knob.name) + 1,
     vendor_namespace |-> knob.namespace,
     attributes |-> 7,
     statistics |-> <<0, 0>>,
     validator |-> "&" \o naming_convention_filter("validate_knob_content_", FALSE, efi)
                   \o knob.name]

knob_data_sentinel ==
    [knob |-> "KNOB_MAX", default_value_address |-> NULL, cache_value_address |-> NULL,
     value_size |-> "0", name |-> NULL, name_size |-> 0,
     vendor_namespace |-> "{0,0,0,{0,0,0,0,0,0,0,0}}", attributes |-> 0,
     statistics |-> <<0, 0>>, validator |-> NULL]

\* mutant: the descriptors are written in reverse schema order
knob_data_table_reversed(knobs, efi) ==
    [declared_length |-> Len(knobs) + 1,
     entries |-> [idx \in 1..Len(knobs) |->
                     knob_data_entry(knobs[Len(knobs) + 1 - idx], efi)]
                 \o <<knob_data_sentinel>>]

\* gKnobData[len(schema.knobs) + 1]
knob_data_table(knobs, efi) ==
    [declared_length |-> Len(knobs) + 1,
     entries |-> [idx \in 1..Len(knobs) |-> knob_data_entry(knobs[idx], efi)]
                 \o <<knob_data_sentinel>>]

\* accessor bodies of one knob
knob_accessors(knob, efi) ==
    <<Decl("getter_body", knob.name,
           naming_convention_filter("config_get_", FALSE, efi) \o knob.name,
           [type |-> get_type_string(knob.format.c_type, efi),
            lookup |-> naming_convention_filter("get_knob_value", FALSE, efi),
            knob |-> "KNOB_" \o knob.name])>>
    \o (IF ~efi
        THEN <<Decl("setter_body", knob.name, "config_set_" \o knob.name,
                    [type |-> get_type_string("bool", efi),
                     lookup |-> "set_knob_value",
                     knob |-> "KNOB_" \o knob.name])>>
        ELSE <<>>)

\* mutant: the initialisers take a knob's current value when it has one
knob_values_current(knobs, efi) ==
    [type |-> naming_convention_filter("knob_values_t", TRUE, efi),
     members |-> [idx \in 1..Len(knobs) |->
                     Field(get_type_string(knobs[idx].format.c_type, efi), knobs[idx].name)],
     defaults |-> "g" \o naming_convention_filter("_knob_default_values", FALSE, efi),
     cached |-> "g" \o naming_convention_filter("_knob_cached_values", FALSE, efi),
     initialisers |-> [idx \in 1..Len(knobs) |->
                          [name |-> knobs[idx].name,
                           literal |-> object_to_string(
                               knobs[idx].format,
                               IF knobs[idx].value = NoValue THEN knobs[idx].default
                               ELSE knobs[idx].value[1])]]]

\* the knob values structure and its initialisers
knob_values(knobs, efi) ==
    [type |-> naming_convention_filter("knob_values_t", TRUE, efi),
     members |-> [idx \in 1..Len(knobs) |->
                     Field(get_type_string(knobs[idx].format.c_type, efi), knobs[idx].name)],
     defaults |-> "g" \o naming_convention_filter("_knob_default_values", FALSE, efi),
     cached |-> "g" \o naming_convention_filter("_knob_cached_values", FALSE, efi),
     initialisers |-> [idx \in 1..Len(knobs) |->
                          [name |-> knobs[idx].name,
                           literal |-> object_to_string(knobs[idx].format,
                                                        knobs[idx].default)]]]

\* index of the first enum without values (enum.values[0] raises there), else 0
first_empty_enum(enums) ==
    IF \E idx \in 1..Len(enums) : enums[idx].values = <<>>
    THEN CHOOSE idx \in 1..Len(enums) :
             /\ enums[idx].values = <<>>
             /\ \A before \in 1..(idx - 1) : enums[before].values # <<>>
    ELSE 0

\* the text written to the service header; when an enum has no values the
\* writing stops inside the loop over the enums
cached_implementation(schm, header_path, efi) ==
    LET stop == first_empty_enum(schm.enums)
        validated == IF stop = 0 THEN Len(schm.enums) ELSE stop - 1
    IN  [written |-> TRUE,
         open |-> get_include_once_style(header_path, efi, TRUE),
         values |-> knob_values(schm.knobs, efi),
         enum_validators |-> [idx \in 1..validated |-> enum_validator(schm.enums[idx], efi)],
         no_constraints |->
             IF stop = 0
             THEN naming_convention_filter("validate_knob_no_constraints", FALSE, efi)
             ELSE None,
         knob_validators |->
             IF stop = 0
             THEN [idx \in 1..Len(schm.knobs) |-> knob_validator(schm.knobs[idx], efi)]
             ELSE <<>>,
         knob_data |-> IF stop = 0 THEN knob_data_table(schm.knobs, efi) ELSE None,
         accessors |->
             IF stop = 0
             THEN Flatten([idx \in 1..Len(schm.knobs) |->
                              knob_accessors(schm.knobs[idx], efi)])
             ELSE <<>>,
         close |-> IF stop = 0 THEN get_include_once_style(header_path, efi, FALSE)
                   ELSE None,
         raised |-> IF stop = 0 THEN None ELSE IndexError]

----------------------------------------------------------------------------
(* The emitted C, compiled against the emitted public header and run.     *)
(* A 32-bit object is given by the signed reading of its bits.  A build   *)
(* fixes what C leaves to the implementation: the width of INTN and       *)
(* whether an enum without negative constants is an unsigned int (gcc,    *)
(* clang) or an int (msvc).                                               *)

Builds == [intn64 : BOOLEAN, int_enums : BOOLEAN]

\* the typedef enum of the header that declares an enum type
header_enum(hdr, name) ==
    CHOOSE decl \in {hdr.decls[idx] : idx \in 1..Len(hdr.decls)} :
        decl.kind = "enum" /\ decl.ident = name

\* value of an enumeration constant of that typedef
enum_constant(decl, ident) ==
    LET at == CHOOSE idx \in 1..Len(decl.body.members) :
                  decl.body.members[idx].ident = ident
    IN  decl.body.members[at].number

\* an enum type is signed when one of its constants is negative
enum_is_signed(decl, build) ==
    \/ build.int_enums
    \/ \E idx \in 1..Len(decl.body.members) : decl.body.members[idx].number < 0

\* numeric value of an object of the enum type holding the bits `bits`
enum_numeric(bits, signed) == IF signed \/ bits >= 0 THEN Wide(0, bits) ELSE Wide(1, bits)

\* (int)value or (INTN)value: a 32-bit target keeps the bits, a 64-bit
\* target keeps the value
cast_to_int(bits, signed, int_type, build) ==
    IF int_type = "INTN" /\ build.intn64 THEN enum_numeric(bits, signed)
    ELSE Wide(0, bits)

\* return value of validate_enum_value_<enum>(value)
run_enum_validator(validator, hdr, bits, build) ==
    LET decl == header_enum(hdr, validator.enum)
        signed == enum_is_signed(decl, build)
    IN  IF validator.strategy = "switch"
        THEN \E idx \in 1..Len(validator.cases) :
                 enum_numeric(bits, signed)
                     = WideOfInt(enum_constant(decl, validator.cases[idx]))
        ELSE LET numeric_value == cast_to_int(bits, signed, validator.int_type, build) IN
             IF WideLess(numeric_value, WideOfInt(validator.lowest)) THEN FALSE
             ELSE IF WideLess(WideOfInt(validator.highest), numeric_value) THEN FALSE
             ELSE IF \E idx \in 1..Len(validator.gaps) :
                         numeric_value = WideOfInt(validator.gaps[idx]) THEN FALSE
             ELSE TRUE

\* value of a KNOB__..._MIN/MAX macro: the preprocessor uses the definition
\* that is in force where the macro is expanded, the last one of the header
macro_value(hdr, name) ==
    LET at == CHOOSE idx \in 1..Len(hdr.decls) :
                  /\ hdr.decls[idx].kind \in {"define_min", "define_max"}
                  /\ hdr.decls[idx].ident = name
                  /\ \A later \in (idx + 1)..Len(hdr.decls) :
                         ~(/\ hdr.decls[later].kind \in {"define_min", "define_max"}
                           /\ hdr.decls[later].ident = name)
    IN  literal_value(hdr.decls[at].body)

\* value of a constant of the knob identity enum: C numbers them from 0
identity_value(hdr, ident) ==
    LET decl == CHOOSE candidate \in {hdr.decls[idx] : idx \in 1..Len(hdr.decls)} :
                    candidate.kind = "knob_enum"
        at == CHOOSE idx \in 1..Len(decl.body) : decl.body[idx] = ident
    IN  at - 1

\* the enum validator a content check calls
called_validator(imp, ident) ==
    CHOOSE validator \in {imp.enum_validators[idx] : idx \in 1..Len(imp.enum_validators)} :
        validator.ident = ident

\* mutant: the bound checks are exclusive
content_check_fails_on_bound(chk, imp, hdr, buffer, build) ==
    IF chk.kind = "enum"
    THEN ~run_enum_validator(called_validator(imp, chk.ref), hdr, buffer[chk.path], build)
    ELSE IF chk.kind = "min" THEN buffer[chk.path] <= macro_value(hdr, chk.ref)
    ELSE buffer[chk.path] >= macro_value(hdr, chk.ref)

\* does this if-statement return false on the buffer
content_check_fails(chk, imp, hdr, buffer, build) ==
    IF chk.kind = "enum"
    THEN ~run_enum_validator(called_validator(imp, chk.ref), hdr, buffer[chk.path], build)
    ELSE IF chk.kind = "min" THEN buffer[chk.path] < macro_value(hdr, chk.ref)
    ELSE buffer[chk.path] > macro_value(hdr, chk.ref)

\* validate_knob_content_<knob>(buffer): the checks run in order and the
\* first failing one returns false; failed is its index, 0 when none fails
run_knob_validator(validator, imp, hdr, buffer, build) ==
    LET failing == {idx \in 1..Len(validator.checks) :
                       content_check_fails(validator.checks[idx], imp, hdr, buffer, build)}
    IN  IF validator.kind = "alias" \/ failing = {}
        THEN [ok |-> TRUE, failed |-> 0]
        ELSE [ok |-> FALSE,
              failed |-> CHOOSE idx \in failing : \A other \in failing : idx <= other]

----------------------------------------------------------------------------
(* generate_profiles *)

\* os.path.basename
basename(path) == SubSeq(path, rfind("/", path) + 1, Len(path))

\* os.path.splitext(name)[0]: the extension starts at the last dot, unless
\* only dots precede it
splitext_root(name) ==
    LET dot == rfind(".", name) IN
    IF dot > 0 /\ \E idx \in 1..(dot - 1) : CharAt(name, idx) # "."
    THEN SubSeq(name, 1, dot - 1)
    ELSE name

\* for knob in schema.knobs: knob.value = None
reset_values(schm) ==
    [schm EXCEPT !.knobs = [idx \in 1..Len(schm.knobs) |->
                               [schm.knobs[idx] EXCEPT !.value = NoValue]]]

\* VariableList.read_csv: every knob a row names gets the row's value
RECURSIVE read_csv(_, _)
read_csv(schm, rows) ==
    IF rows = <<>> THEN schm
    ELSE read_csv([schm EXCEPT !.knobs =
                      [idx \in 1..Len(schm.knobs) |->
                          IF schm.knobs[idx].name = Head(rows).name
                          THEN [schm.knobs[idx] EXCEPT !.value = Some(Head(rows).value)]
                          ELSE schm.knobs[idx]]],
                  Tail(rows))

\* the knobs with a current value, in schema order
overridden_knobs(schm) == SelectSeq(schm.knobs, LAMBDA knob : knob.value # NoValue)

\* the write of a member of the profile structure evaluates
\* +get_line_ending(efi_type), unary plus of a str: TypeError
profile_struct_raises(schm) == overridden_knobs(schm) # <<>>

TypeError == "<TypeError>"

override_entry(knob, base_name, efi) ==
    [knob |-> "KNOB_" \o knob.name,
     value |-> "&" \o naming_convention_filter("profile_", FALSE, efi) \o base_name
               \o naming_convention_filter("_data", FALSE, efi) \o "." \o knob.name]

override_sentinel == [knob |-> "KNOB_MAX", value |-> NULL]

\* the override array of a profile: the entries, then the sentinel
profile_overrides(schm, base_name, efi) ==
    LET set == overridden_knobs(schm) IN
    [idx \in 1..Len(set) |-> override_entry(set[idx], base_name, efi)]
    \o <<override_sentinel>>

\* what one iteration of the loop over profile_paths writes for a source
\* whose values are already applied to schm
profile_block(schm, base_name, efi) ==
    LET set == overridden_knobs(schm)
        override_count == Len(set)
    IN  [base_name |-> base_name,
         data_type |-> naming_convention_filter("profile_", TRUE, efi) \o base_name
                       \o naming_convention_filter("_data_t", TRUE, efi),
         members |-> [idx \in 1..Len(set) |-> Field(set[idx].format.c_type, set[idx].name)],
         data |-> naming_convention_filter("profile_", FALSE, efi) \o base_name
                  \o naming_convention_filter("_data", FALSE, efi),
         initialisers |-> [idx \in 1..Len(set) |->
                              [name |-> set[idx].name,
                               literal |-> object_to_string(set[idx].format,
                                                            set[idx].value[1])]],
         overrides_macro |-> "PROFILE_" \o upper(base_name) \o "_OVERRIDES",
         count_macro |-> "PROFILE_" \o upper(base_name) \o "_OVERRIDES_COUNT",
         count |-> override_count,
         overrides_ident |-> naming_convention_filter("profile_", FALSE, efi) \o base_name
                             \o naming_convention_filter("_overrides", FALSE, efi),
         overrides |-> profile_overrides(schm, base_name, efi),
         raised |-> None]

OSError == "<OSError>"

\* what is written of a block when its override source cannot be read
profile_block_unread(base_name) ==
    [base_name |-> base_name, data_type |-> None, members |-> <<>>, data |-> None,
     initialisers |-> <<>>, overrides_macro |-> None, count_macro |-> None,
     count |-> None, overrides_ident |-> None, overrides |-> None,
     raised |-> OSError]

\* what is written of a block when its structure member write raises
profile_block_raised(base_name) ==
    [base_name |-> base_name, data_type |-> None, members |-> <<>>, data |-> None,
     initialisers |-> <<>>, overrides_macro |-> None, count_macro |-> None,
     count |-> None, overrides_ident |-> None, overrides |-> None,
     raised |-> TypeError]

directory_entry(profile, efi) ==
    [overrides |-> naming_convention_filter("profile_", FALSE, efi) \o profile[1]
                   \o naming_convention_filter("_overrides", FALSE, efi),
     override_count |-> profile[2]]

directory_sentinel == [overrides |-> NULL, override_count |-> 0]

\* #define PROFILE_COUNT and the profiles[] array
profile_directory(list, efi) ==
    [profile_count |-> Len(list),
     ident |-> naming_convention_filter("profiles", FALSE, efi),
     entries |-> [idx \in 1..Len(list) |-> directory_entry(list[idx], efi)]
                 \o <<directory_sentinel>>]

----------------------------------------------------------------------------
(* The inputs: schemas, command lines and override sources *)

Numbers == ((-1)..MaxNumber) \cup {Int32Max}

ValueNames == <<"a", "b", "c", "d", "e", "f">>

\* the sequences of pairwise different numbers, the empty one included
NumberSeqs ==
    UNION {{nums \in [1..len -> Numbers] :
               \A one, other \in 1..len : one < other => nums[one] # nums[other]} :
           len \in 0..MaxEnumValues}

EnumOf(name, nums) ==
    Enum(name, [idx \in 1..Len(nums) |-> EnumValue(ValueNames[idx], nums[idx])])

uint8 == IntFormat("uint8_t", 0, 255, 1)
uint16 == IntFormat("uint16_t", 0, 65535, 2)
int8 == IntFormat("int8_t", -128, 127, 1)

EnumMode == EnumOf("Mode", <<0, 1, 3>>)
EnumFlag == EnumOf("Flag", <<-1, 0, 10>>)

StructCfg == Struct("cfg_t", <<StructMember("lo", int8, 1), StructMember("hi", uint8, 2)>>)

\* a scalar knob is its own leaf sub-knob
KnobPw == Knob("pw", uint16, 100, <<SubKnob("pw", TRUE, uint16, 0, 300)>>)
KnobRaw == Knob("raw", uint8, 7, <<SubKnob("raw", TRUE, uint8, 0, 255)>>)
KnobMode ==
    Knob("mode", EnumFormat(EnumMode), "Mode_a",
         <<SubKnob("mode", TRUE, EnumFormat(EnumMode), Int32Min, Int32Max)>>)
KnobCfg ==
    Knob("cfg", StructFormat("cfg_t", 3), "{-1,{2,3}}",
         <<SubKnob("cfg", FALSE, StructFormat("cfg_t", 3), None, None),
           SubKnob("cfg.lo", TRUE, int8, -5, 127),
           SubKnob("cfg.hi[0]", TRUE, uint8, 2, 9),
           SubKnob("cfg.hi[1]", TRUE, uint8, 2, 9)>>)

KnobPool == {KnobPw, KnobRaw, KnobMode, KnobCfg}

KnobSeqs ==
    UNION {{knobs \in [1..len -> KnobPool] :
               \A one, other \in 1..len : one < other => knobs[one] # knobs[other]} :
           len \in 1..MaxKnobs}

Schema(enums, structs, knobs) == [enums |-> enums, structs |-> structs, knobs |-> knobs]

\* one varied enum and a knob of its type
EnumSchemas ==
    {Schema(<<EnumOf("E", nums)>>, <<>>,
            <<Knob("sel", EnumFormat(EnumOf("E", nums)), "0",
                   <<SubKnob("sel", TRUE, EnumFormat(EnumOf("E", nums)),
                             Int32Min, Int32Max)>>)>>) :
        nums \in NumberSeqs}

KnobSchemas == {Schema(<<EnumMode, EnumFlag>>, <<StructCfg>>, knobs) : knobs \in KnobSeqs}

ProfileSchema == Schema(<<EnumMode>>, <<>>, <<KnobPw, KnobRaw>>)

CsvPaths == {"x.csv", "d/x.csv", "y.z.csv"}

Row(name, value) == [name |-> name, value |-> value]

RowsPool == {<<>>, <<Row("pw", 250)>>, <<Row("raw", 9), Row("pw", 250)>>}

PathSeqs == UNION {[1..len -> CsvPaths] : len \in 0..MaxProfiles}

\* an override source that cannot be read
UnreadablePath == "gone.csv"

NoCsv == [path \in CsvPaths \cup {UnreadablePath} |-> <<>>]

\* a schema with an enum that declares no value
EmptyEnumSchema == Schema(<<EnumOf("E", <<>>)>>, <<>>, <<KnobRaw>>)

Commands == {"generateheader", "GenerateHeader_EFI"}

Scenarios ==
    {[argv |-> <<"KnobService.py", command, "schema.xml", "Knobs.h", "Service.h">>,
      disk |-> [schema |-> schm, csv |-> NoCsv, unreadable |-> {}]] :
        command \in Commands, schm \in EnumSchemas \cup KnobSchemas}
    \cup
    {[argv |-> <<"KnobService.py", command, "schema.xml", "Knobs.h", "Service.h",
                 "Profiles.h">> \o paths,
      disk |-> [schema |-> ProfileSchema, csv |-> csv, unreadable |-> {}]] :
        command \in Commands, paths \in PathSeqs, csv \in [CsvPaths -> RowsPool]}
    \cup
    {[argv |-> <<"KnobService.py", command, "schema.xml", "Knobs.h", "Service.h",
                 "Profiles.h">> \o paths,
      disk |-> [schema |-> ProfileSchema, csv |-> [NoCsv EXCEPT !["x.csv"] = rows],
                unreadable |-> {UnreadablePath}]] :
        command \in Commands, rows \in RowsPool,
        paths \in {<<UnreadablePath>>, <<UnreadablePath, "x.csv">>,
                   <<"x.csv", UnreadablePath>>}}
    \cup
    {[argv |-> <<"KnobService.py", command, "schema.xml", "Knobs.h", "Service.h",
                 "Profiles.h", "x.csv">>,
      disk |-> [schema |-> EmptyEnumSchema, csv |-> NoCsv, unreadable |-> {}]] :
        command \in Commands}
    \cup
    {[argv |-> bad, disk |-> [schema |-> ProfileSchema, csv |-> NoCsv, unreadable |-> {}]] :
        bad \in {<<"KnobService.py">>,
                 <<"KnobService.py", "generateheader", "schema.xml", "Knobs.h">>,
                 <<"KnobService.py", "generateheader_efi">>,
                 <<"KnobService.py", "help">>,
                 <<"KnobService.py", "generate", "schema.xml", "Knobs.h", "Service.h">>}}

\* the 32-bit values an enum validator is run on
EnumTestValues == ((-2)..(MaxNumber + 1)) \cup {Int32Min, Int32Max - 1, Int32Max}

\* the values a leaf field is given: around the sub-knob's bounds, within
\* what the field's type can hold
LeafTestValues(subknob) ==
    IF subknob.format.kind = "enum" THEN {0, 2, 3}
    ELSE {value \in {subknob.min - 1, subknob.min, subknob.max, subknob.max + 1} :
             subknob.format.min <= value /\ value <= subknob.format.max}

LeafIndexes(knob) == {idx \in 1..Len(knob.subknobs) : knob.subknobs[idx].leaf}

\* the buffers a content validator is run on, as the value at each leaf path
Buffers(knob) ==
    LET paths == {subknob_path(knob, knob.subknobs[idx]) : idx \in LeafIndexes(knob)}
        values == UNION {LeafTestValues(knob.subknobs[idx]) : idx \in LeafIndexes(knob)}
    IN  {buffer \in [paths -> values] :
            \A idx \in LeafIndexes(knob) :
                buffer[subknob_path(knob, knob.subknobs[idx])]
                    \in LeafTestValues(knob.subknobs[idx])}

----------------------------------------------------------------------------
(* main *)

Init ==
    /\ \E scenario \in Scenarios :
           /\ argv = scenario.argv
           /\ disk = scenario.disk
    /\ schema = None
    /\ efi_type = None
    /\ pc = "main"
    /\ status = NoValue
    /\ stdout = <<>>
    /\ stderr = <<>>
    /\ header = NotWritten
    /\ impl = NotWritten
    /\ profile_out = NotWritten
    /\ profiles = <<>>
    /\ profile_idx = 0
    /\ handles = <<>>
    /\ check = [kind |-> "none"]

is_generate_command(command) ==
    lower(command) = "generateheader" \/ lower(command) = "generateheader_efi"

\* an uncaught exception: traceback on stderr, exit status 1
Uncaught(exception) ==
    /\ pc' = "exited"
    /\ status' = Some(1)
    /\ stderr' = Append(stderr, exception)

\* len(sys.argv) < 2: usage(), message, sys.exit(1)
MainNoCommand ==
    /\ pc = "main"
    /\ Len(argv) < 2
    /\ stdout' = Append(stdout, "usage")
    /\ stderr' = Append(stderr, "Must provide a command.\n")
    /\ pc' = "exited"
    /\ status' = Some(1)
    /\ UNCHANGED <<argv, disk, schema, efi_type, header, impl, profile_out, profiles,
                   profile_idx, check>>
    /\ UNCHANGED handles

\* a generate command with fewer than three paths
MainBadArguments ==
    /\ pc = "main"
    /\ Len(argv) >= 2
    /\ is_generate_command(argv[2])
    /\ Len(argv) < 5
    /\ stdout' = Append(stdout, "usage")
    /\ stderr' = Append(stderr, "Invalid number of arguments.\n")
    /\ pc' = "exited"
    /\ status' = Some(1)
    /\ UNCHANGED <<argv, disk, schema, efi_type, header, impl, profile_out, profiles,
                   profile_idx, check>>
    /\ UNCHANGED handles

\* any other command: main falls off its end, sys.exit(None)
MainOtherCommand ==
    /\ pc = "main"
    /\ Len(argv) >= 2
    /\ ~is_generate_command(argv[2])
    /\ pc' = "exited"
    /\ status' = Some(0)
    /\ UNCHANGED <<argv, disk, schema, efi_type, stdout, stderr, header, impl,
                   profile_out, profiles, profile_idx, check>>
    /\ UNCHANGED handles

\* mutant: generate_sources starts with the definition artifact
MainLoadSchema_definition_first ==
    /\ pc = "main"
    /\ Len(argv) >= 5
    /\ is_generate_command(argv[2])
    /\ efi_type' = (lower(argv[2]) = "generateheader_efi")
    /\ schema' = disk.schema
    /\ pc' = "generate_cached_implementation"
    /\ UNCHANGED <<argv, disk, status, stdout, stderr, header, impl, profile_out,
                   profiles, profile_idx, check>>
    /\ UNCHANGED handles

\* efi_types, the paths, Schema.load
MainLoadSchema ==
    /\ pc = "main"
    /\ Len(argv) >= 5
    /\ is_generate_command(argv[2])
    /\ efi_type' = (lower(argv[2]) = "generateheader_efi")
    /\ schema' = disk.schema
    /\ pc' = "generate_public_header"
    /\ UNCHANGED <<argv, disk, status, stdout, stderr, header, impl, profile_out,
                   profiles, profile_idx, check>>
    /\ UNCHANGED handles

\* with open(path, 'w') as out: opened on entry, closed on every exit
Opened(path) == [op |-> "open", path |-> path]
Closed(path) == [op |-> "close", path |-> path]

\* mutant: an exception leaves the with block without closing the file
with_exit_on_raise_leaking(events, path) == events

\* an exception leaves the with block: the file is closed on the way out
with_exit_on_raise(events, path) == Append(events, Closed(path))

GeneratePublicHeader ==
    /\ pc = "generate_public_header"
    /\ header' = public_header(schema, argv[4], efi_type)
    /\ handles' = handles \o <<Opened(argv[4]), Closed(argv[4])>>
    /\ pc' = "generate_cached_implementation"
    /\ UNCHANGED <<argv, disk, schema, efi_type, status, stdout, stderr, impl,
                   profile_out, profiles, profile_idx, check>>

\* mutant: a failure of the definition emitter is swallowed
GenerateCachedImplementation_swallowing ==
    /\ pc = "generate_cached_implementation"
    /\ impl' = cached_implementation(schema, argv[5], efi_type)
    /\ handles' = handles \o <<Opened(argv[5]), Closed(argv[5])>>
    /\ pc' = "generated_sources"
    /\ UNCHANGED <<argv, disk, schema, efi_type, status, stdout, stderr, header,
                   profile_out, profiles, profile_idx, check>>

GenerateCachedImplementation ==
    /\ pc = "generate_cached_implementation"
    /\ impl' = cached_implementation(schema, argv[5], efi_type)
    /\ handles' = IF impl'.raised # None
                  THEN with_exit_on_raise(Append(handles, Opened(argv[5])), argv[5])
                  ELSE handles \o <<Opened(argv[5]), Closed(argv[5])>>
    /\ IF impl'.raised # None
       THEN /\ Uncaught(impl'.raised)
            /\ UNCHANGED stdout
       ELSE /\ pc' = "generated_sources"
            /\ UNCHANGED <<status, stdout, stderr>>
    /\ UNCHANGED <<argv, disk, schema, efi_type, header, profile_out, profiles,
                   profile_idx, check>>

\* no profile header on the command line: return 0
MainReturn ==
    /\ pc = "generated_sources"
    /\ Len(argv) < 6
    /\ pc' = "exited"
    /\ status' = Some(0)
    /\ UNCHANGED <<argv, disk, schema, efi_type, stdout, stderr, header, impl,
                   profile_out, profiles, profile_idx, check>>
    /\ UNCHANGED handles

\* generate_profiles up to its loop over profile_paths
GenerateProfilesOpen ==
    /\ pc = "generated_sources"
    /\ Len(argv) >= 6
    /\ profile_out' = [written |-> TRUE,
                       open |-> get_include_once_style(argv[6], efi_type, TRUE),
                       sources |-> SubSeq(argv, 7, Len(argv)),
                       blocks |-> <<>>,
                       directory |-> NoValue,
                       close |-> None]
    /\ profiles' = <<>>
    /\ profile_idx' = 0
    /\ handles' = Append(handles, Opened(argv[6]))
    /\ pc' = "generate_profiles"
    /\ UNCHANGED <<argv, disk, schema, efi_type, status, stdout, stderr, header, impl,
                   check>>

\* one iteration of the loop over profile_paths
GenerateProfile ==
    /\ pc = "generate_profiles"
    /\ profile_idx < Len(profile_out.sources)
    /\ LET profile_path == profile_out.sources[profile_idx + 1]
           base_name == splitext_root(basename(profile_path))
           applied == read_csv(reset_values(schema), disk.csv[profile_path])
       IN  /\ profile_idx' = profile_idx + 1
           /\ IF profile_path \in disk.unreadable
              THEN /\ schema' = reset_values(schema)
                   /\ profile_out' = [profile_out EXCEPT
                          !.blocks = Append(@, profile_block_unread(base_name))]
                   /\ Uncaught(OSError)
                   /\ handles' = with_exit_on_raise(handles, argv[6])
                   /\ UNCHANGED <<profiles, stdout>>
              ELSE IF profile_struct_raises(applied)
              THEN /\ schema' = applied
                   /\ profile_out' = [profile_out EXCEPT
                          !.blocks = Append(@, profile_block_raised(base_name))]
                   /\ Uncaught(TypeError)
                   /\ handles' = with_exit_on_raise(handles, argv[6])
                   /\ UNCHANGED <<profiles, stdout>>
              ELSE /\ schema' = applied
                   /\ profile_out' = [profile_out EXCEPT
                          !.blocks = Append(@, profile_block(applied, base_name, efi_type))]
                   /\ profiles' = Append(profiles,
                                         <<base_name, Len(overridden_knobs(applied))>>)
                   /\ UNCHANGED <<pc, status, stdout, stderr, handles>>
    /\ UNCHANGED <<argv, disk, efi_type, header, impl, check>>

\* after the loop: the profile directory, the closing guard, return 0
GenerateProfilesClose ==
    /\ pc = "generate_profiles"
    /\ profile_idx = Len(profile_out.sources)
    /\ profile_out' = [profile_out EXCEPT
                          !.directory = Some(profile_directory(profiles, efi_type)),
                          !.close = get_include_once_style(argv[6], efi_type, FALSE)]
    /\ handles' = Append(handles, Closed(argv[6]))
    /\ pc' = "exited"
    /\ status' = Some(0)
    /\ UNCHANGED <<argv, disk, schema, efi_type, stdout, stderr, header, impl, profiles,
                   profile_idx, check>>

\* the emitted headers are complete: they can be compiled and run
Compiled == pc = "exited" /\ header.written /\ impl.written /\ impl.raised = None

\* a call of an emitted enum validator
ValidateEnumValue ==
    /\ Compiled
    /\ check.kind = "none"
    /\ \E idx \in 1..Len(impl.enum_validators), bits \in EnumTestValues, build \in Builds :
           check' = [kind |-> "enum", enum |-> idx, bits |-> bits, build |-> build,
                     result |-> run_enum_validator(impl.enum_validators[idx], header,
                                                   bits, build)]
    /\ UNCHANGED <<argv, disk, schema, efi_type, pc, status, stdout, stderr, header, impl,
                   profile_out, profiles, profile_idx>>
    /\ UNCHANGED handles

\* a call of an emitted knob content validator
ValidateKnobContent ==
    /\ Compiled
    /\ check.kind = "none"
    /\ \E idx \in 1..Len(impl.knob_validators), build \in Builds :
           \E buffer \in Buffers(schema.knobs[idx]) :
               check' = [kind |-> "knob", knob |-> idx, buffer |-> buffer, build |-> build,
                         result |-> run_knob_validator(impl.knob_validators[idx], impl,
                                                       header, buffer, build)]
    /\ UNCHANGED <<argv, disk, schema, efi_type, pc, status, stdout, stderr, header, impl,
                   profile_out, profiles, profile_idx>>
    /\ UNCHANGED handles

Next ==
    \/ MainNoCommand
    \/ MainBadArguments
    \/ MainOtherCommand
    \/ MainLoadSchema
    \/ GeneratePublicHeader
    \/ GenerateCachedImplementation
    \/ MainReturn
    \/ GenerateProfilesOpen
    \/ GenerateProfile
    \/ GenerateProfilesClose
    \/ ValidateEnumValue
    \/ ValidateKnobContent

Spec == Init /\ [][Next]_vars

----------------------------------------------------------------------------
(* The dialect policy functions applied to names *)

\* the strings of a given length over a set of characters
RECURSIVE Strings(_, _)
Strings(chars, len) ==
    IF len = 0 THEN {""}
    ELSE {str \o ch : str \in Strings(chars, len - 1), ch \in chars}

\* non-empty identifiers: letters and underscores, "_t" endings included
Identifiers == UNION {Strings({"a", "t", "_"}, len) : len \in 1..MaxNameLen}

\* artifact names: letters of both cases and dots
FileNames == UNION {Strings({"a", "H", "."}, len) : len \in 1..MaxNameLen}

InitPolicy ==
    /\ argv = <<"KnobService.py">>
    /\ disk = [schema |-> ProfileSchema, csv |-> NoCsv, unreadable |-> {}]
    /\ schema = None
    /\ efi_type = None
    /\ pc = "policy"
    /\ status = NoValue
    /\ stdout = <<>>
    /\ stderr = <<>>
    /\ header = NotWritten
    /\ impl = NotWritten
    /\ profile_out = NotWritten
    /\ profiles = <<>>
    /\ profile_idx = 0
    /\ handles = <<>>
    /\ check = [kind |-> "none"]

\* one call of naming_convention_filter
ApplyNamingConventionFilter ==
    /\ pc = "policy"
    /\ check.kind = "none"
    /\ \E value \in Identifiers, type \in BOOLEAN, uefi \in BOOLEAN :
           check' = [kind |-> "naming", value |-> value, type |-> type, uefi |-> uefi,
                     result |-> naming_convention_filter(value, type, uefi)]
    /\ UNCHANGED <<argv, disk, schema, efi_type, pc, status, stdout, stderr, header, impl,
                   profile_out, profiles, profile_idx>>
    /\ UNCHANGED handles

\* the two calls of get_include_once_style made for one artifact
ApplyIncludeOnceStyle ==
    /\ pc = "policy"
    /\ check.kind = "none"
    /\ \E name \in FileNames, uefi \in BOOLEAN :
           check' = [kind |-> "guard", name |-> name, uefi |-> uefi,
                     open |-> get_include_once_style(name, uefi, TRUE),
                     close |-> get_include_once_style(name, uefi, FALSE)]
    /\ UNCHANGED <<argv, disk, schema, efi_type, pc, status, stdout, stderr, header, impl,
                   profile_out, profiles, profile_idx>>
    /\ UNCHANGED handles

NextPolicy ==
    \/ ApplyNamingConventionFilter
    \/ ApplyIncludeOnceStyle

SpecPolicy == InitPolicy /\ [][NextPolicy]_vars

----------------------------------------------------------------------------
(* Properties of the emitted enum validators *)

DeclaredNumbers(enum) == {enum.values[idx].number : idx \in 1..Len(enum.values)}
Lowest(enum) == CHOOSE num \in DeclaredNumbers(enum) : \A other \in DeclaredNumbers(enum) : num <= other
Highest(enum) == CHOOSE num \in DeclaredNumbers(enum) : \A other \in DeclaredNumbers(enum) : num >= other

\* highest - lowest <= bound, for a small bound
SpanAtMost(enum, bound) ==
    /\ ~(Lowest(enum) < 0 /\ Highest(enum) > Int32Max + Lowest(enum))
    /\ Highest(enum) - Lowest(enum) <= bound

SpanIsCount(enum) ==
    SpanAtMost(enum, Len(enum.values)) /\ Highest(enum) - Lowest(enum) = Len(enum.values)

CheckedEnum == schema.enums[check.enum]

\* C1: for an enum whose span exceeds its count of values the emitted
\* validator is the switch, and it returns true exactly for the declared
\* numbers: every other 32-bit value is rejected, those between the lowest
\* and the highest number included.
C1_SparseEnumAcceptsExactlyDeclared ==
    (check.kind = "enum" /\ ~SpanAtMost(CheckedEnum, Len(CheckedEnum.values)))
    => /\ impl.enum_validators[check.enum].strategy = "switch"
       /\ check.result = (check.bits \in DeclaredNumbers(CheckedEnum))

\* the switch rejected an undeclared value strictly inside the range
C1_Witness ==
    /\ check.kind = "enum"
    /\ ~SpanAtMost(CheckedEnum, Len(CheckedEnum.values))
    /\ Lowest(CheckedEnum) < check.bits
    /\ check.bits < Highest(CheckedEnum)
    /\ check.bits \notin DeclaredNumbers(CheckedEnum)
    /\ check.result = FALSE

\* C2 as stated: for an enum with span = count and no negative number the
\* validator accepts every integer of [lowest, highest] and rejects
\* lowest - 1 and highest + 1.
C2_DenseEnumAcceptsWholeRange ==
    (check.kind = "enum" /\ SpanIsCount(CheckedEnum) /\ ~has_negative(CheckedEnum))
    => /\ check.bits \in Lowest(CheckedEnum)..Highest(CheckedEnum) => check.result
       /\ check.bits \in {Lowest(CheckedEnum) - 1, Highest(CheckedEnum) + 1} => ~check.result

\* C2 amended: for an enum with span = count and no negative number the
\* validator accepts the declared numbers of [lowest, highest], rejects the
\* undeclared integers of that range, of which there is at least one, and
\* rejects lowest - 1 and highest + 1.
C2_SpanEqualsCountAcceptsDeclared ==
    (check.kind = "enum" /\ SpanIsCount(CheckedEnum) /\ ~has_negative(CheckedEnum))
    => /\ check.bits \in Lowest(CheckedEnum)..Highest(CheckedEnum)
              => check.result = (check.bits \in DeclaredNumbers(CheckedEnum))
       /\ check.bits \in {Lowest(CheckedEnum) - 1, Highest(CheckedEnum) + 1} => ~check.result
       /\ \E num \in Lowest(CheckedEnum)..Highest(CheckedEnum) :
              num \notin DeclaredNumbers(CheckedEnum)

\* an undeclared value of the range was rejected for such an enum
C2_Witness ==
    /\ check.kind = "enum"
    /\ SpanIsCount(CheckedEnum)
    /\ ~has_negative(CheckedEnum)
    /\ check.bits \in Lowest(CheckedEnum)..Highest(CheckedEnum)
    /\ check.bits \notin DeclaredNumbers(CheckedEnum)
    /\ check.result = FALSE

\* C3: for an enum with span <= count the emitted validator is the range
\* one; it returns false below the lowest number, false above the highest,
\* false for the undeclared integers in between and true for every declared
\* number.
C3_RangeStrategyAcceptsDeclared ==
    (check.kind = "enum" /\ SpanAtMost(CheckedEnum, Len(CheckedEnum.values)))
    => /\ impl.enum_validators[check.enum].strategy = "range"
       /\ check.bits < Lowest(CheckedEnum) => ~check.result
       /\ check.bits > Highest(CheckedEnum) => ~check.result
       /\ (/\ check.bits \in Lowest(CheckedEnum)..Highest(CheckedEnum)
           /\ check.bits \notin DeclaredNumbers(CheckedEnum)) => ~check.result
       /\ check.bits \in DeclaredNumbers(CheckedEnum) => check.result

\* the range validator accepted the highest of several declared numbers
C3_Witness ==
    /\ check.kind = "enum"
    /\ SpanAtMost(CheckedEnum, Len(CheckedEnum.values))
    /\ impl.enum_validators[check.enum].strategy = "range"
    /\ Lowest(CheckedEnum) < Highest(CheckedEnum)
    /\ check.bits = Highest(CheckedEnum)
    /\ check.result = TRUE

----------------------------------------------------------------------------
(* Properties of the emitted knob content validators *)

CheckedKnob == schema.knobs[check.knob]

NarrowedLeaves(knob) ==
    {idx \in LeafIndexes(knob) :
        /\ knob.subknobs[idx].format.kind # "enum"
        /\ \/ knob.subknobs[idx].min # knob.subknobs[idx].format.min
           \/ knob.subknobs[idx].max # knob.subknobs[idx].format.max}

FieldOf(idx) == check.buffer[subknob_path(CheckedKnob, CheckedKnob.subknobs[idx])]

\* the validator returned false at a check of this sub-knob
RejectedOn(idx) ==
    /\ ~check.result.ok
    /\ impl.knob_validators[check.knob].checks[check.result.failed].subknob
           = CheckedKnob.subknobs[idx].name

\* C4: a content validator returns false when the field of a non-enum leaf
\* lies strictly below its narrowed min or strictly above its narrowed max,
\* and does not reject on that leaf when the field equals min or max.
C4_NarrowedBoundsInclusive ==
    check.kind = "knob"
    => \A idx \in NarrowedLeaves(CheckedKnob) :
           LET leaf == CheckedKnob.subknobs[idx] IN
           /\ (leaf.min # leaf.format.min /\ FieldOf(idx) < leaf.min) => ~check.result.ok
           /\ (leaf.max # leaf.format.max /\ FieldOf(idx) > leaf.max) => ~check.result.ok
           /\ FieldOf(idx) \in {leaf.min, leaf.max} => ~RejectedOn(idx)

\* a buffer whose field sits on a narrowed max was accepted
C4_Witness ==
    /\ check.kind = "knob"
    /\ \E idx \in NarrowedLeaves(CheckedKnob) :
           /\ CheckedKnob.subknobs[idx].max # CheckedKnob.subknobs[idx].format.max
           /\ FieldOf(idx) = CheckedKnob.subknobs[idx].max
    /\ check.result.ok

----------------------------------------------------------------------------
(* Properties of the profile artifact *)

\* the knobs of the schema that the source at position idx names
NamedKnobs(idx) ==
    LET rows == disk.csv[profile_out.sources[idx]] IN
    {schema.knobs[at].name : at \in {at \in 1..Len(schema.knobs) :
        \E row \in 1..Len(rows) : rows[row].name = schema.knobs[at].name}}

\* the override sources of the run can all be read
SourcesReadable ==
    \A idx \in 1..Len(profile_out.sources) : profile_out.sources[idx] \notin disk.unreadable

\* C5: for every override source that generate_profiles has processed, the
\* override array holds one entry per knob the source set and then the
\* sentinel {KNOB_MAX, NULL}; its length is the override count plus one and
\* PROFILE_<name>_OVERRIDES_COUNT is that count.
C5_OverrideArrayPerSource ==
    (profile_out.written /\ SourcesReadable)
    => \A idx \in 1..profile_idx :
           LET block == profile_out.blocks[idx] IN
           /\ block.raised = None
           /\ Len(block.overrides) = Cardinality(NamedKnobs(idx)) + 1
           /\ block.overrides[Len(block.overrides)] = [knob |-> "KNOB_MAX", value |-> NULL]
           /\ {block.overrides[at].knob : at \in 1..(Len(block.overrides) - 1)}
                  = {"KNOB_" \o name : name \in NamedKnobs(idx)}
           /\ block.count = Cardinality(NamedKnobs(idx))

\* C6: for every position of the source sequence, the knobs emitted as
\* overridden for that source are exactly the knobs the source names,
\* whatever the earlier sources overrode.
C6_EmittedSetIsNamedSet ==
    (profile_out.written /\ SourcesReadable)
    => \A idx \in 1..profile_idx :
           LET block == profile_out.blocks[idx] IN
           /\ block.raised = None
           /\ {block.members[at].name : at \in 1..Len(block.members)} = NamedKnobs(idx)
           /\ {block.initialisers[at].name : at \in 1..Len(block.initialisers)}
                  = NamedKnobs(idx)

\* C7: once generate_profiles has gone through all the override sources, the
\* profile directory holds one {overrides, override count} entry per source,
\* in source order, then the {NULL, 0} sentinel, and PROFILE_COUNT is the
\* number of sources.
C7_DirectoryPerSource ==
    (/\ profile_out.written
     /\ SourcesReadable
     /\ pc = "exited"
     /\ profile_idx = Len(profile_out.sources))
    => /\ profile_out.directory # NoValue
       /\ LET directory == profile_out.directory[1]
              count == Len(profile_out.sources)
          IN  /\ directory.profile_count = count
              /\ Len(directory.entries) = count + 1
              /\ directory.entries[count + 1] = [overrides |-> NULL, override_count |-> 0]
              /\ \A idx \in 1..count :
                     /\ directory.entries[idx].overrides
                            = profile_out.blocks[idx].overrides_ident
                     /\ directory.entries[idx].override_count
                            = Cardinality(NamedKnobs(idx))

----------------------------------------------------------------------------
(* Properties across the public header and the service header *)

\* C8: the knob descriptor table has len(knobs) + 1 entries; entry i carries
\* the identity KNOB_<knob i>, whose value in the identity enum of the public
\* header is i, and the last entry is the sentinel: KNOB_MAX with null
\* default, cache, name and validator.
C8_DescriptorOrderIsIdentityOrder ==
    (header.written /\ impl.written /\ impl.raised = None)
    => LET table == impl.knob_data
           count == Len(schema.knobs)
       IN  /\ table.declared_length = count + 1
           /\ Len(table.entries) = count + 1
           /\ \A idx \in 1..count :
                  /\ table.entries[idx].knob = "KNOB_" \o schema.knobs[idx].name
                  /\ identity_value(header, table.entries[idx].knob) = idx - 1
           /\ table.entries[count + 1].knob = "KNOB_MAX"
           /\ identity_value(header, "KNOB_MAX") = count
           /\ table.entries[count + 1].default_value_address = NULL
           /\ table.entries[count + 1].cache_value_address = NULL
           /\ table.entries[count + 1].name = NULL
           /\ table.entries[count + 1].validator = NULL

\* both artifacts are written for a schema of several knobs
C8_Witness ==
    /\ header.written
    /\ impl.written
    /\ impl.raised = None
    /\ Len(schema.knobs) >= 2
    /\ Len(impl.knob_data.entries) = 3

\* C9: the padding member of every emitted enum differs from the number of
\* every declared member of that enum.
C9_PaddingDiffersFromMembers ==
    header.written
    => \A idx \in 1..Len(header.decls) :
           header.decls[idx].kind = "enum"
           => \A at \in 1..Len(header.decls[idx].body.members) :
                  WideOfInt(header.decls[idx].body.members[at].number)
                      # header.decls[idx].body.padding.value

\* the schema-defined declarations of a header: what is declared, in order
DeclKey(decl) == [kind |-> decl.kind, subject |-> decl.subject]

SchemaDecls(hdr, kinds) ==
    LET kept == SelectSeq(hdr.decls, LAMBDA decl : decl.kind \in kinds) IN
    [idx \in 1..Len(kept) |-> DeclKey(kept[idx])]

OtherDialectHeader == public_header(schema, argv[4], ~efi_type)

\* generate_public_header has just returned: the header is not written to
\* afterwards
HeaderJustWritten == header.written /\ pc = "generate_cached_implementation"

\* C10 as stated: the enum, struct and knob declarations that
\* generate_public_header has written, the per-knob accessor declarations
\* included, are the same in the same order in both dialects.
C10_SameDeclarationsWithAccessors ==
    HeaderJustWritten
    => SchemaDecls(header, {"enum", "struct", "define_min", "define_max", "getter",
                            "setter", "knob_enum"})
       = SchemaDecls(OtherDialectHeader, {"enum", "struct", "define_min", "define_max",
                                          "getter", "setter", "knob_enum"})

\* C10 amended: the enum, struct, bound constant, get accessor and knob
\* identity declarations are the same in the same order in both dialects;
\* the set accessor declarations are emitted, one per knob, in the generic
\* dialect only.
C10_SameDeclarationsButSetters ==
    HeaderJustWritten
    => /\ SchemaDecls(header, {"enum", "struct", "define_min", "define_max", "getter",
                               "knob_enum"})
          = SchemaDecls(OtherDialectHeader, {"enum", "struct", "define_min",
                                             "define_max", "getter", "knob_enum"})
       /\ Len(SchemaDecls(header, {"setter"}))
              = (IF efi_type THEN 0 ELSE Len(schema.knobs))
       /\ Len(SchemaDecls(OtherDialectHeader, {"setter"}))
              = (IF efi_type THEN Len(schema.knobs) ELSE 0)

\* a firmware-dialect header with bound constants for several knobs
C10_Witness ==
    /\ HeaderJustWritten
    /\ efi_type = TRUE
    /\ Len(schema.knobs) >= 2
    /\ \E idx \in 1..Len(header.decls) : header.decls[idx].kind = "define_max"

----------------------------------------------------------------------------
(* Properties of the dialect policy *)

\* upper camel case: underscores dropped, the first letter and the letter
\* after an underscore capitalised
RECURSIVE CamelCase(_, _)
CamelCase(str, capitalise) ==
    IF str = "" THEN ""
    ELSE IF CharAt(str, 1) = "_" THEN CamelCase(SubSeq(str, 2, Len(str)), TRUE)
    ELSE (IF capitalise THEN UpperChar(CharAt(str, 1)) ELSE CharAt(str, 1))
         \o CamelCase(SubSeq(str, 2, Len(str)), FALSE)

WithoutTypeSuffix(str) ==
    IF Len(str) >= 2 /\ SubSeq(str, Len(str) - 1, Len(str)) = "_t"
    THEN SubSeq(str, 1, Len(str) - 2)
    ELSE str

RECURSIVE UpperCased(_)
UpperCased(str) ==
    IF str = "" THEN ""
    ELSE UpperChar(CharAt(str, 1)) \o UpperCased(SubSeq(str, 2, Len(str)))

\* C11: in the firmware dialect naming_convention_filter returns, for every
\* non-empty identifier, a result and never fails: for type=False the
\* identifier in upper camel case with all underscores removed, for type=True
\* the identifier without a trailing "_t", upper-cased, underscores kept.
C11_NamingConventionTotal ==
    (check.kind = "naming" /\ check.uefi)
    => /\ check.result # IndexError
       /\ check.result = (IF check.type THEN UpperCased(WithoutTypeSuffix(check.value))
                          ELSE CamelCase(check.value, TRUE))

\* the macro name of an artifact: upper-cased, each dot an underscore
RECURSIVE GuardMacro(_)
GuardMacro(name) ==
    IF name = "" THEN ""
    ELSE (IF CharAt(name, 1) = "." THEN "_" ELSE UpperChar(CharAt(name, 1)))
         \o GuardMacro(SubSeq(name, 2, Len(name)))

FirmwareGuard ==
    check.uefi
    => /\ check.open = "#ifndef " \o GuardMacro(check.name) \o "\r\n"
                       \o "#define " \o GuardMacro(check.name) \o "\r\n"
       /\ check.close = "#endif // " \o GuardMacro(check.name) \o "\r\n"

\* C12 as stated: in the generic dialect get_include_once_style returns the
\* pragma line on opening and the empty string on closing; in the firmware
\* dialect an #ifndef/#define pair and an #endif carrying the same macro
\* name, the name upper-cased with every dot replaced by an underscore.
C12_GenericClosingIsEmpty ==
    check.kind = "guard"
    => /\ FirmwareGuard
       /\ ~check.uefi => (check.open = "#pragma once\n" /\ check.close = "")

\* C12 amended: as stated, but the generic closing is a single line ending
\* and carries no guard text.
C12_GenericClosingIsLineEnding ==
    check.kind = "guard"
    => /\ FirmwareGuard
       /\ ~check.uefi => (check.open = "#pragma once\n" /\ check.close = "\n")

\* both dialects were applied to a name with a dot
C12_Witness ==
    /\ check.kind = "guard"
    /\ check.name = "a.H"
    /\ check.uefi
    /\ check.close = "#endif // A_H\r\n"

----------------------------------------------------------------------------
(* Properties of main *)

\* no subcommand, or a generate command with fewer than three paths
InsufficientArguments ==
    \/ Len(argv) < 2
    \/ /\ lower(argv[2]) \in {"generateheader", "generateheader_efi"}
       /\ Len(argv) - 2 < 3

Lines(stream) == {stream[idx] : idx \in 1..Len(stream)}

\* C13: when main is invoked with no subcommand, or with a generate command
\* followed by fewer than three paths, the process terminates with a
\* non-zero status, the usage guidance has been printed to the error stream,
\* and no output artifact is opened or written.
C13_UsageOnErrorStream ==
    (pc = "exited" /\ InsufficientArguments)
    => /\ status # NoValue
       /\ status # Some(0)
       /\ "usage" \in Lines(stderr)
       /\ ~header.written
       /\ ~impl.written
       /\ ~profile_out.written

----------------------------------------------------------------------------
(* Properties of the schema's working values *)

ValuesAbsent(schm) == \A idx \in 1..Len(schm.knobs) : schm.knobs[idx].value = NoValue

\* C14: a knob's current value is set only while generate_profiles is
\* running: before it is called and once it has been left, whatever the
\* override sources were, every knob's current value is absent.
C14_ValuesSetOnlyWhileMerging ==
    (header.written /\ pc # "generate_profiles") => ValuesAbsent(schema)

\* C15: generate_public_header and generate_cached_implementation leave the
\* schema object graph unchanged and their output does not depend on the
\* knobs' current values: what they wrote is what they write for the schema
\* as generate_profiles changes it afterwards; a step changes the loaded
\* schema only inside generate_profiles, and there only the current values.
C15_EmittersLeaveSchemaUnchanged ==
    /\ [](profile_out.written
            => /\ header = public_header(schema, argv[4], efi_type)
               /\ impl = cached_implementation(schema, argv[5], efi_type))
    /\ [][(pc # "main" /\ schema' # schema)
            => /\ pc = "generate_profiles"
               /\ reset_values(schema') = reset_values(schema)]_vars

\* both artifacts are written and generate_profiles has set a current value
C15_Witness ==
    /\ header.written
    /\ impl.written
    /\ profile_out.written
    /\ \E idx \in 1..Len(schema.knobs) : schema.knobs[idx].value # NoValue

----------------------------------------------------------------------------
(* Properties of the phases and of the output file handles *)

\* position of an event in the log of the file handles, 0 when absent
Position(event) ==
    IF \E idx \in 1..Len(handles) : handles[idx] = event
    THEN CHOOSE idx \in 1..Len(handles) : handles[idx] = event
    ELSE 0

HasHappened(event) == Position(event) > 0

\* C16: in a run of main with a valid generate command the declaration
\* artifact comes first, then the definition artifact, then, only when a
\* profile output path is given, the profile artifact: the definition
\* artifact is not opened before the declaration artifact is written and
\* closed, nor the profile artifact before the definition artifact is
\* written and closed.
C16_PhasesInOrder ==
    /\ handles # <<>> => (Len(argv) >= 5 /\ handles[1] = Opened(argv[4]))
    /\ impl.written
           => /\ header.written
              /\ header.close # None
              /\ HasHappened(Closed(argv[4]))
              /\ Position(Closed(argv[4])) < Position(Opened(argv[5]))
    /\ profile_out.written
           => /\ Len(argv) >= 6
              /\ impl.written
              /\ impl.close # None
              /\ HasHappened(Closed(argv[5]))
              /\ Position(Closed(argv[5])) < Position(Opened(argv[6]))
    /\ (pc = "exited" /\ status = Some(0) /\ Len(argv) >= 6 /\ header.written)
           => profile_out.written

\* the three artifacts have been opened one after the other
C16_Witness ==
    /\ Len(handles) >= 5
    /\ HasHappened(Opened(argv[6]))
    /\ profile_out.written

RaisedBlocks ==
    {idx \in 1..Len(profile_out.blocks) : profile_out.blocks[idx].raised # None}

\* C17: when an emission phase fails, the failure leaves main: the process
\* ends with a status other than 0, the exception is reported, and no later
\* phase, block or closing part is emitted after the failure.
C17_FailurePropagates ==
    /\ (impl.written /\ impl.raised # None)
           => /\ pc = "exited"
              /\ status = Some(1)
              /\ impl.raised \in Lines(stderr)
              /\ impl.close = None
              /\ ~profile_out.written
    /\ profile_out.written
           => \A idx \in RaisedBlocks :
                  /\ pc = "exited"
                  /\ status = Some(1)
                  /\ profile_out.blocks[idx].raised \in Lines(stderr)
                  /\ idx = Len(profile_out.blocks)
                  /\ profile_out.directory = NoValue
                  /\ profile_out.close = None

\* the definition emitter failed in a run that was asked for profiles
C17_Witness ==
    /\ impl.written
    /\ impl.raised = IndexError
    /\ Len(argv) >= 6
    /\ status = Some(1)

\* the files open after the first count events of the log
RECURSIVE OpenAfter(_)
OpenAfter(count) ==
    IF count = 0 THEN {}
    ELSE IF handles[count].op = "open"
    THEN OpenAfter(count - 1) \cup {handles[count].path}
    ELSE OpenAfter(count - 1) \ {handles[count].path}

\* C18: every output file handle is released when the function that opened
\* it is left, by return or by exception: a file is open only inside
\* generate_profiles (the other two emitters are entered and left in one
\* step), at no point are two artifacts open together, and none is open
\* once main has terminated.
C18_HandlesReleased ==
    /\ \A count \in 0..Len(handles) : Cardinality(OpenAfter(count)) <= 1
    /\ \A count \in 1..Len(handles) :
           handles[count].op = "close" => handles[count].path \in OpenAfter(count - 1)
    /\ pc # "generate_profiles" => OpenAfter(Len(handles)) = {}
    /\ pc = "generate_profiles" => OpenAfter(Len(handles)) = {argv[6]}
    /\ header.written => HasHappened(Opened(argv[4]))
    /\ impl.written => HasHappened(Opened(argv[5]))
    /\ profile_out.written => HasHappened(Opened(argv[6]))

\* generate_profiles was left by an exception and its file is closed
C18_Witness ==
    /\ pc = "exited"
    /\ profile_out.written
    /\ RaisedBlocks # {}
    /\ handles[Len(handles)] = Closed(argv[6])

----------------------------------------------------------------------------
(* Properties of the knob content validators' definitions *)

\* the knob has a leaf that is of an enum type or whose bounds are narrowed
HasConstrainedLeaf(knob) ==
    \E idx \in LeafIndexes(knob) :
        \/ knob.subknobs[idx].format.kind = "enum"
        \/ knob.subknobs[idx].min # knob.subknobs[idx].format.min
        \/ knob.subknobs[idx].max # knob.subknobs[idx].format.max

\* validate_knob_content_<knob> as the dialect spells it
ContentValidatorName(knob) ==
    (IF efi_type THEN "ValidateKnobContent" ELSE "validate_knob_content_") \o knob.name

\* C19: for every knob the definition artifact defines exactly one symbol
\* validate_knob_content_<knob>: a function when the knob has a leaf that is
\* enum-typed or has a narrowed min or max, otherwise a macro alias of the
\* shared no-constraints validator; the validator address of every entry of
\* the descriptor table is one of these symbols.
C19_OneContentValidatorPerKnob ==
    (impl.written /\ impl.raised = None)
    => /\ Len(impl.knob_validators) = Len(schema.knobs)
       /\ \A idx \in 1..Len(schema.knobs) :
              LET validator == impl.knob_validators[idx]
                  knob == schema.knobs[idx]
              IN  /\ validator.ident = ContentValidatorName(knob)
                  /\ Cardinality({other \in 1..Len(impl.knob_validators) :
                         impl.knob_validators[other].ident = validator.ident}) = 1
                  /\ validator.kind = (IF HasConstrainedLeaf(knob) THEN "function"
                                       ELSE "alias")
                  /\ validator.kind = "alias"
                         => /\ impl.no_constraints # None
                            /\ validator.target = impl.no_constraints
                  /\ impl.knob_data.entries[idx].validator = "&" \o validator.ident

\* one knob with a dedicated validator and one with the alias
C19_Witness ==
    /\ impl.written
    /\ impl.raised = None
    /\ \E one, other \in 1..Len(impl.knob_validators) :
           /\ impl.knob_validators[one].kind = "function"
           /\ impl.knob_validators[other].kind = "alias"

\* C20: for every schema and every sequence of readable override sources,
\* those that set knobs included, generate_profiles runs to completion: it
\* emits a block per source, the profile directory and the closing include
\* guard, and returns without raising.
C20_ProfilesRunToCompletion ==
    (profile_out.written /\ SourcesReadable /\ pc = "exited")
    => /\ status = Some(0)
       /\ Len(profile_out.blocks) = Len(profile_out.sources)
       /\ RaisedBlocks = {}
       /\ profile_out.directory # NoValue
       /\ profile_out.close # None

----------------------------------------------------------------------------
(* Properties across the artifacts: bound constants, profile symbols *)

\* a sub-knob name as it appears in a macro name: brackets become an
\* underscore, a dot two underscores
RECURSIVE Mangled(_)
Mangled(name) ==
    IF name = "" THEN ""
    ELSE (IF CharAt(name, 1) \in {"[", "]"} THEN "_"
          ELSE IF CharAt(name, 1) = "." THEN "__"
          ELSE CharAt(name, 1))
         \o Mangled(SubSeq(name, 2, Len(name)))

\* the macro names the public header defines
DefinedMacros ==
    {header.decls[idx].ident :
        idx \in {at \in 1..Len(header.decls) :
                    header.decls[at].kind \in {"define_min", "define_max"}}}

\* the bound checks of the content validators: <<knob index, check index>>
BoundChecks ==
    {pair \in (1..Len(impl.knob_validators)) \X (1..4) :
        /\ pair[2] <= Len(impl.knob_validators[pair[1]].checks)
        /\ impl.knob_validators[pair[1]].checks[pair[2]].kind \in {"min", "max"}}

\* C21: whenever a content validator written by
\* generate_cached_implementation refers to KNOB__<leaf>__MIN or
\* KNOB__<leaf>__MAX, generate_public_header has written a #define of that
\* macro name for the same schema and dialect: no validator refers to an
\* undefined bound constant.
C21_BoundConstantsDefined ==
    (header.written /\ impl.written /\ impl.raised = None)
    => \A pair \in BoundChecks :
           LET chk == impl.knob_validators[pair[1]].checks[pair[2]] IN
           /\ chk.ref = "KNOB__" \o Mangled(chk.subknob)
                        \o (IF chk.kind = "min" THEN "__MIN" ELSE "__MAX")
           /\ chk.ref \in DefinedMacros

\* a validator refers to the MAX constant of an array element of a struct
C21_Witness ==
    /\ header.written
    /\ impl.written
    /\ impl.raised = None
    /\ \E pair \in BoundChecks :
           /\ impl.knob_validators[pair[1]].checks[pair[2]].ref = "KNOB__cfg__hi_0___MAX"
           /\ "KNOB__cfg__hi_0___MAX" \in DefinedMacros

\* the symbols one profile block defines
BlockSymbols(block) ==
    {block.data_type, block.data, block.overrides_ident, block.overrides_macro,
     block.count_macro}

\* C22: when the override-source paths are pairwise different, the
\* identifiers written per profile (data type, data instance, overrides
\* array, PROFILE_<NAME>_OVERRIDES_COUNT macro) are pairwise different
\* across the profiles: no two profiles of one artifact define the same
\* symbol.
C22_ProfileSymbolsDistinct ==
    (/\ profile_out.written
     /\ \A one, other \in 1..Len(profile_out.sources) :
            one # other => profile_out.sources[one] # profile_out.sources[other])
    => \A one, other \in 1..Len(profile_out.blocks) :
           (/\ one < other
            /\ profile_out.blocks[one].raised = None
            /\ profile_out.blocks[other].raised = None)
           => BlockSymbols(profile_out.blocks[one])
                  \cap BlockSymbols(profile_out.blocks[other]) = {}

\* C23: when the first argument of main is neither generateheader nor
\* generateheader_efi, in any case of the letters, the process terminates
\* with a non-zero status and writes no output artifact.
C23_UnknownCommandFails ==
    (/\ pc = "exited"
     /\ Len(argv) >= 2
     /\ lower(argv[2]) \notin {"generateheader", "generateheader_efi"})
    => /\ status # NoValue
       /\ status # Some(0)
       /\ ~header.written
       /\ ~impl.written
       /\ ~profile_out.written

====
